---- MODULE Spec2Model ----
(***************************************************************************)
(* A model of the peer-to-peer chat system: the rendezvous registry        *)
(* (stun_server.py) and the peer node with its handshake and sessions      *)
(* (peer.py).                                                              *)
(*                                                                         *)
(* SpecRegistry : the registry's HTTP handlers called with arbitrary       *)
(*                arguments while time passes and the expiry sweep runs.   *)
(* SpecChat     : two nodes through their whole life (start, heartbeat,    *)
(*                dial, handshake, text chat, shutdown), ChatConns         *)
(*                connections.                                             *)
(* SpecDial     : two running nodes dialing each other, MaxConns           *)
(*                connections, sessions without text.                      *)
(* FairSpecDial : SpecDial with threads that keep running.                 *)
(* SpecStores   : the in-memory registry and the Redis registry given the   *)
(*                same calls at the same times.                              *)
(* SpecThreads  : the registry's handlers as concurrent threads, one store   *)
(*                command per step.                                          *)
(* SpecSweep    : the in-memory registry's sweep as a thread beside the      *)
(*                handler threads.                                           *)
(* SpecThree    : three running nodes, two of them dialing the third.        *)
(* SpecStop     : two nodes through their whole life, Sessions without      *)
(*                text; FairSpecStop: with a main() that returns and a       *)
(*                heartbeat thread that keeps running.                       *)
(***************************************************************************)
EXTENDS Integers, Sequences, FiniteSets, TLC

(***************************************************************************)
(* Bounds of the model.                                                    *)
(***************************************************************************)
\* the clock stops after this many sweep intervals
MaxTicks == 13
\* the number of register / heartbeat / unregister calls of a run
MaxCalls == 3
\* the number of TCP connections dialed in a run
MaxConns == 2
\* the number of Text messages sent from one end of a connection
MaxMsgs == 2
\* the number of those connections a run with text chat uses
ChatConns == 1
\* handler threads of the registry serving requests at the same time
MaxThreads == 2

(***************************************************************************)
(* Program constants (seconds).                                            *)
(***************************************************************************)
\* stun_server.py:53   self.redis_client.expire(key, 3600)
RedisTTL == 3600
\* stun_server.py:113  timedelta(minutes=30)
MemTTLMinutes == 30
\* stun_server.py:102  threading.Event().wait(300)
SweepInterval == 300

MemTTL == MemTTLMinutes * 60
MaxTime == MaxTicks * SweepInterval

Usernames == {"alice", "bob", "carol"}
\* the users of the runs with two nodes
Pair == {"alice", "bob"}
\* the username whose call history is recorded
Watched == "alice"
Ips == {"10.0.0.1"}
Ports == {9000, 9001}

\* Python's None
None == [none |-> TRUE]

\* a Python int and the string Redis keeps of it (decode_responses=True)
PyInt(n) == [t |-> "int", v |-> n]
PyStr(n) == [t |-> "str", v |-> n]
\* Python's int(x) on either
int(x) == x.v

VARIABLES
  redis_client,   \* TRUE: the Redis connection is up; FALSE: None, in-memory store
  peers,          \* STUNServer.peers: username -> peer_info (in-memory store)
  redis_hash,     \* Redis hash "peer:<username>", or None when the key is absent
  redis_expire,   \* Redis expiry deadline of "peer:<username>"
  online_peers,   \* Redis set "online_peers"
  now,            \* datetime.now(), in seconds
  sweepDue,       \* cleanup_old_peers has finished its wait(300)
  resp,           \* the response of the handler called by the latest step
  ncalls,         \* write calls made so far
  lastCall,       \* the latest write call made on the watched username
  lastAddr,       \* the address passed to its latest register
  lastTouch,      \* the time of its latest register or heartbeat
  kept,           \* it was registered, not unregistered since, and no gap
                  \* between its register/heartbeat calls has reached the TTL
  calls,          \* the threads of the server: where each handler thread is
                  \* in its request (Idle between requests), and where the
                  \* cleanup thread is in cleanup_old_peers
  \* ---- peer.py: one Peer per node ----
  is_running,     \* Peer.is_running
  tcp_server,     \* Peer.tcp_server: "none", "listening" or "closed"
  connections,    \* Peer.connections: username -> socket (the connection it
                  \* is an end of), 0 when the key is absent
  mainpc,         \* the main thread: "start", "menu", "call", "dial", "stopped",
                  \* "exited"
  target_username, \* main(): the username typed for option 2, "none" otherwise
  dialResult,     \* what connect_to_peer returned, when the latest step is its
                  \* return (main() drops the value); NoDial otherwise
  hbpc,           \* the heartbeat thread: "none", "loop" (at the while test),
                  \* "except" (the POST has raised), "done"
  \* ---- one TCP connection per slot; its ends are "i" (dialer) and "r" ----
  c_init,         \* the node that dialed, "none" while the slot is unused
  c_to,           \* the node dialed
  from_username,  \* the username the handler read from the connect_request
  ist,            \* connect_to_peer on this socket: "none", "wait", "chat", "done"
  hst,            \* handle_incoming_connection: "none", "backlog", "recv",
                  \* "consent", "chat", "done"
  sock,           \* per end: "none", "open", "closed"
  buf,            \* per end: the bytes received and not yet read
  rx,             \* per end: receive_messages: "none", "recv", "del", "close",
                  \* "done", "dead"
  tx,             \* per end: send_messages: "none", "input", "done", "dead"
  sent,           \* per end: the contents of the Text messages sent
  sink,           \* per end: the contents of the Text messages printed
  reply           \* the handler's answer: "none", "accepted", "rejected"

storeVars == <<redis_client, peers, redis_hash, redis_expire, online_peers>>
regVars == <<redis_client, peers, redis_hash, redis_expire, online_peers, now,
             sweepDue, resp>>
histVars == <<ncalls, lastCall, lastAddr, lastTouch, kept, calls>>
nodeVars == <<is_running, tcp_server, connections, mainpc, target_username,
              hbpc>>
connVars == <<c_init, c_to, from_username, ist, hst, sock, buf, rx, tx, sent,
              sink, reply>>
peerVars == <<nodeVars, dialResult, connVars>>
vars == <<regVars, histVars, nodeVars, dialResult, connVars>>

NoResp == [op |-> "none"]
NoAddr == [ip_address |-> "", port |-> 0]

\* the server's handler threads (Flask serves each request in its own thread)
Threads == 1..MaxThreads
Idle == [pc |-> "idle"]
\* STUNServer.cleanup_thread, in its wait(300)
cleanup_thread == 0
Waiting == [pc |-> "wait"]

(***************************************************************************)
(* STUNServer                                                              *)
(***************************************************************************)
\* the peer_info dict built by register_peer
NewPeerInfo(username, ip_address, port) ==
  [username |-> username, ip_address |-> ip_address, port |-> PyInt(port),
   status |-> "online", last_seen |-> now, registered_at |-> now]

\* redis hset(key, mapping=...): every value is kept as a string
hset_mapping(peer_info) == [peer_info EXCEPT !.port = PyStr(peer_info.port.v)]

register_peer(username, ip_address, port) ==
  IF redis_client
  THEN /\ redis_hash' = [redis_hash EXCEPT
                           ![username] = hset_mapping(NewPeerInfo(username, ip_address, port))]
       /\ redis_expire' = [redis_expire EXCEPT ![username] = now + RedisTTL]
       /\ online_peers' = online_peers \cup {username}
       /\ UNCHANGED peers
  ELSE /\ peers' = [peers EXCEPT ![username] = NewPeerInfo(username, ip_address, port)]
       /\ UNCHANGED <<redis_hash, redis_expire, online_peers>>

\* hgetall of a key: the hash, or None (an empty dict) once the key is gone
hgetall(username) ==
  IF redis_hash[username] # None /\ now < redis_expire[username]
  THEN redis_hash[username] ELSE None

get_all_peers ==
  IF redis_client
  THEN {hgetall(u) : u \in {x \in online_peers : hgetall(x) # None}}
  ELSE {peers[u] : u \in {x \in Usernames : peers[x] # None}}

get_peer_info(username) ==
  IF redis_client THEN hgetall(username) ELSE peers[username]

\* an update that writes the record whether or not the key exists
update_or_create(username, status) ==
  LET peer_info == [NewPeerInfo(username, NoAddr.ip_address, NoAddr.port)
                      EXCEPT !.status = status] IN
  IF redis_client
  THEN /\ redis_hash' = [redis_hash EXCEPT ![username] =
                           IF hgetall(username) = None THEN hset_mapping(peer_info)
                           ELSE [@ EXCEPT !.status = status, !.last_seen = now]]
       /\ redis_expire' = [redis_expire EXCEPT ![username] =
                             IF hgetall(username) = None THEN now + RedisTTL ELSE @]
       /\ online_peers' = IF status = "online"
                          THEN online_peers \cup {username}
                          ELSE online_peers \ {username}
       /\ UNCHANGED peers
  ELSE /\ peers' = [peers EXCEPT ![username] =
                      IF @ = None THEN peer_info
                      ELSE [@ EXCEPT !.status = status, !.last_seen = now]]
       /\ UNCHANGED <<redis_hash, redis_expire, online_peers>>

\* the in-memory store has no branch here: the call changes nothing
update_peer_status(username, status) ==
  IF redis_client /\ hgetall(username) # None
  THEN /\ redis_hash' = [redis_hash EXCEPT ![username] =
                           [@ EXCEPT !.status = status, !.last_seen = now]]
       /\ online_peers' = IF status = "online"
                          THEN online_peers \cup {username}
                          ELSE online_peers \ {username}
       /\ UNCHANGED <<peers, redis_expire>>
  ELSE UNCHANGED <<peers, redis_hash, redis_expire, online_peers>>

\* one pass of the sweep loop, after its wait(300)
cleanup_old_peers ==
  /\ sweepDue
  /\ sweepDue' = FALSE
  /\ IF redis_client
     THEN UNCHANGED peers
     ELSE peers' = [u \in Usernames |->
                      IF peers[u] # None /\ (now - peers[u].last_seen) > MemTTL
                      THEN None ELSE peers[u]]
  /\ UNCHANGED <<redis_client, redis_hash, redis_expire, online_peers, now>>

(***************************************************************************)
(* The HTTP handlers: what each does to the store, and what it answers.     *)
(***************************************************************************)
register(username, ip_address, port) ==
  LET existing_peer == get_peer_info(username) IN
  /\ IF existing_peer # None
     THEN update_peer_status(username, "online")
     ELSE register_peer(username, ip_address, port)
  /\ UNCHANGED <<redis_client, now, sweepDue>>

\* the JSON body and status code register returns
register_response(username, ip_address, port) ==
  LET existing_peer == get_peer_info(username) IN
  IF existing_peer # None
  THEN [op |-> "register", username |-> username,
        ip_address |-> ip_address, port |-> port,
        code |-> 200, peer |-> existing_peer, existed |-> TRUE]
  ELSE [op |-> "register", username |-> username,
        ip_address |-> ip_address, port |-> port,
        code |-> 201, peer |-> NewPeerInfo(username, ip_address, port),
        existed |-> FALSE]

\* GET /peers: the records of get_all_peers whose status is online
get_peers == {peer \in get_all_peers : peer.status = "online"}

\* GET /peerinfo
peerinfo(username) ==
  IF get_peer_info(username) = None
  THEN [code |-> 404, peer |-> None]
  ELSE [code |-> 200, peer |-> get_peer_info(username)]

heartbeat(username) ==
  /\ update_peer_status(username, "online")
  /\ UNCHANGED <<redis_client, now, sweepDue>>

heartbeat_response(username) ==
  [op |-> "heartbeat", username |-> username, code |-> 200,
   existed |-> get_peer_info(username) # None]

unregister(username) ==
  /\ update_peer_status(username, "offline")
  /\ UNCHANGED <<redis_client, now, sweepDue>>

unregister_response(username) ==
  [op |-> "unregister", username |-> username, code |-> 200,
   existed |-> get_peer_info(username) # None]

(***************************************************************************)
(* Peer (peer.py).  The nodes are the usernames; every node runs main().   *)
(***************************************************************************)
Conns == 1..MaxConns
Ends == {"i", "r"}
\* what the user types at the chat prompt: numbered lines, or /exit
Line(k) == ToString(k)
InputLines == {"/exit"} \cup {Line(k) : k \in 1..MaxMsgs}
Other(e) == IF e = "i" THEN "r" ELSE "i"

\* the address of a node's TCP server (self.local_ip, self.peer_port)
local_ip(n) == "10.0.0.1"
peer_port(n) == IF n = "alice" THEN 9000 ELSE IF n = "bob" THEN 9001 ELSE 9002
\* the node whose TCP server is bound to an address, "none" if there is none
NodeAt(ip, port) ==
  IF \E m \in Usernames : local_ip(m) = ip /\ peer_port(m) = port
  THEN CHOOSE m \in Usernames : local_ip(m) = ip /\ peer_port(m) = port
  ELSE "none"

NodeOf(c, e) == IF e = "i" THEN c_init[c] ELSE c_to[c]
EndOf(c, n) == IF c_init[c] = n THEN "i" ELSE "r"
\* peer_username of chat_with_peer at an end: target_username for the dialer,
\* the request's username for the handler
KeyOf(c, e) == IF e = "i" THEN c_to[c] ELSE from_username[c]

\* ---- the wire: a stream of bytes; each send adds one encoded message ----
Whole(m) == [msg |-> m, part |-> "whole"]
\* recv(1024): some prefix of what has arrived: one message, several messages
\* run together, or the first part of a message
recv(b) ==
  {[data |-> SubSeq(b, 1, k), rest |-> SubSeq(b, k + 1, Len(b))] : k \in 1..Len(b)}
  \cup (IF b[1].part = "whole"
        THEN {[data |-> <<[b[1] EXCEPT !.part = "head"]>>,
               rest |-> <<[b[1] EXCEPT !.part = "tail"]>> \o Tail(b)]}
        ELSE {})
JSONDecodeError == [type |-> "JSONDecodeError"]
\* json.loads of what one recv returned
json_loads(data) ==
  IF Len(data) = 1 /\ data[1].part = "whole" THEN data[1].msg ELSE JSONDecodeError

connect_request(n) == [type |-> "connect_request", username |-> n, timestamp |-> now]
accept_msg(n) == [type |-> "connection_accepted", from |-> n]
reject_msg(n) == [type |-> "connection_rejected", from |-> n]
message_data(n, content) ==
  [type |-> "message", from |-> n, content |-> content, timestamp |-> now]
disconnect_msg(n) == [type |-> "disconnect", from |-> n, timestamp |-> now]

\* socket.send at end e: the bytes reach the other end unless it is closed
Delivered(b, sk, c, e, m) ==
  IF sk[c][Other(e)] = "open"
  THEN [b EXCEPT ![c][Other(e)] = Append(@, Whole(m))]
  ELSE b
\* socket.close at end e
Closed(sk, c, e) == [sk EXCEPT ![c][e] = "closed"]
\* the bytes an end has not read and never will (it has closed the socket, or
\* it has left the code that reads it)
Dropped(b, c, e) == [b EXCEPT ![c][e] = <<>>]

\* the loop condition of receive_messages and send_messages
LoopCond(conns, n, key) == is_running[n] /\ conns[n][key] # 0
\* leaving the receive loop: the test of "if peer_username in self.connections"
AfterBreak(conns, n, key) == IF conns[n][key] # 0 THEN "del" ELSE "close"
RxEnter(conns, n, key) ==
  IF LoopCond(conns, n, key) THEN "recv" ELSE AfterBreak(conns, n, key)
TxEnter(conns, n, key) == IF LoopCond(conns, n, key) THEN "input" ELSE "done"

NoDial == [node |-> "none", target |-> "none", ret |-> FALSE, outcome |-> "none"]
DialReturn(n, t, ret, outcome) ==
  [node |-> n, target |-> t, ret |-> ret, outcome |-> outcome]

InitPeers ==
  /\ is_running = [n \in Usernames |-> FALSE]
  /\ tcp_server = [n \in Usernames |-> "none"]
  /\ connections = [n \in Usernames |-> [u \in Usernames |-> 0]]
  /\ mainpc = [n \in Usernames |-> "start"]
  /\ target_username = [n \in Usernames |-> "none"]
  /\ dialResult = NoDial
  /\ hbpc = [n \in Usernames |-> "none"]
  /\ c_init = [c \in Conns |-> "none"]
  /\ c_to = [c \in Conns |-> "none"]
  /\ from_username = [c \in Conns |-> "none"]
  /\ ist = [c \in Conns |-> "none"]
  /\ hst = [c \in Conns |-> "none"]
  /\ sock = [c \in Conns |-> [e \in Ends |-> "none"]]
  /\ buf = [c \in Conns |-> [e \in Ends |-> <<>>]]
  /\ rx = [c \in Conns |-> [e \in Ends |-> "none"]]
  /\ tx = [c \in Conns |-> [e \in Ends |-> "none"]]
  /\ sent = [c \in Conns |-> [e \in Ends |-> <<>>]]
  /\ sink = [c \in Conns |-> [e \in Ends |-> <<>>]]
  /\ reply = [c \in Conns |-> "none"]

\* a call of the registry over HTTP that does not get through
HttpFails == UNCHANGED storeVars

\* main() up to the menu: Peer(username), register_with_stun
Start(n) ==
  /\ mainpc[n] = "start"
  /\ \/ /\ register(n, local_ip(n), peer_port(n))
        /\ register_response(n, local_ip(n), peer_port(n)).code \in {200, 201}
        /\ is_running' = [is_running EXCEPT ![n] = TRUE]
        /\ tcp_server' = [tcp_server EXCEPT ![n] = "listening"]
        /\ hbpc' = [hbpc EXCEPT ![n] = "loop"]
        /\ mainpc' = [mainpc EXCEPT ![n] = "menu"]
     \/ /\ HttpFails
        /\ is_running' = [is_running EXCEPT ![n] = TRUE]
        /\ tcp_server' = [tcp_server EXCEPT ![n] = "closed"]
        /\ mainpc' = [mainpc EXCEPT ![n] = "exited"]
        /\ UNCHANGED hbpc
  /\ UNCHANGED <<now, sweepDue, resp, connections, target_username, connVars,
                 histVars>>
  /\ dialResult' = NoDial

\* heartbeat_loop: one turn of the loop
\* an exception that leaves heartbeat_loop: the thread dies
except_raise(n) == hbpc' = [hbpc EXCEPT ![n] = "done"]

\* `except: pass`, then the sleep(60) that ends the pass through the loop
except_pass(n) == hbpc' = [hbpc EXCEPT ![n] = "loop"]

\* one pass through heartbeat_loop: the while test, the POST (answered, or
\* raising when the registry is unreachable or times out) and, unless it
\* raised, the sleep
start_heartbeat(n) ==
  /\ hbpc[n] = "loop"
  /\ IF is_running[n]
     THEN \/ heartbeat(n) /\ UNCHANGED hbpc
          \/ HttpFails /\ hbpc' = [hbpc EXCEPT ![n] = "except"]
     ELSE /\ hbpc' = [hbpc EXCEPT ![n] = "done"]
          /\ UNCHANGED storeVars
  /\ UNCHANGED <<now, sweepDue, resp>>
  /\ UNCHANGED <<is_running, tcp_server, connections, mainpc, target_username>>
  /\ dialResult' = NoDial
  /\ UNCHANGED <<connVars, histVars>>

\* heartbeat_loop after a POST that raised
heartbeat_loop_except(n) ==
  /\ hbpc[n] = "except"
  /\ except_pass(n)
  /\ dialResult' = NoDial
  /\ UNCHANGED <<is_running, tcp_server, connections, mainpc, target_username,
                 connVars, regVars, histVars>>

\* Peer.get_peer_info: the record, or None on 404 or when the call fails
Peer_get_peer_info(username, reached) ==
  IF reached /\ peerinfo(username).code = 200 THEN peerinfo(username).peer ELSE None

\* a dialer without the test below
NeverInConnections(n, t) == FALSE
\* connect_to_peer: "if target_username in self.connections"
InConnections(n, t) == connections[n][t] # 0

\* the connections dialed so far, with the dials about to be made
Dials ==
  Cardinality({c \in Conns : c_init[c] # "none"})
  + Cardinality({m \in Usernames : mainpc[m] = "call"})

\* main(), option 2, up to the call of connect_to_peer
main_connect(n, t) ==
  /\ mainpc[n] = "menu"
  /\ t # n
  /\ IF connections[n][t] # 0
     THEN UNCHANGED <<mainpc, target_username>>
     ELSE /\ Dials < MaxConns
          /\ mainpc' = [mainpc EXCEPT ![n] = "call"]
          /\ target_username' = [target_username EXCEPT ![n] = t]
  /\ dialResult' = NoDial
  /\ UNCHANGED <<is_running, tcp_server, connections, hbpc, connVars, regVars,
                 histVars>>

\* connect_to_peer returns to the menu
Returned(n, t, ret, outcome) ==
  /\ mainpc' = [mainpc EXCEPT ![n] = "menu"]
  /\ dialResult' = DialReturn(n, t, ret, outcome)

\* connect_to_peer up to its wait for the response
connect_to_peer(n, t) ==
  /\ mainpc[n] = "call"
  /\ target_username[n] = t
  /\ target_username' = [target_username EXCEPT ![n] = "none"]
  /\ \E reached \in BOOLEAN :
       LET peer_info == Peer_get_peer_info(t, reached)
           m == IF peer_info = None THEN "none"
                ELSE NodeAt(peer_info.ip_address, int(peer_info.port))
           free == {c \in Conns : c_init[c] = "none"}
           c == CHOOSE x \in free : \A y \in free : x <= y
       IN
       IF peer_info = None
       THEN /\ Returned(n, t, FALSE, "not_found")
            /\ UNCHANGED connVars
       ELSE IF InConnections(n, t)
       THEN /\ Returned(n, t, TRUE, "already_connected")
            /\ UNCHANGED connVars
       ELSE IF m = "none" \/ tcp_server[m] # "listening"
       THEN /\ Returned(n, t, FALSE, "refused")
            /\ UNCHANGED connVars
       ELSE /\ c_init' = [c_init EXCEPT ![c] = n]
            /\ c_to' = [c_to EXCEPT ![c] = m]
            /\ sock' = [sock EXCEPT ![c] = [e \in Ends |-> "open"]]
            /\ buf' = [buf EXCEPT ![c]["r"] = <<Whole(connect_request(n))>>]
            /\ ist' = [ist EXCEPT ![c] = "wait"]
            /\ hst' = [hst EXCEPT ![c] = "backlog"]
            /\ mainpc' = [mainpc EXCEPT ![n] = "dial"]
            /\ dialResult' = NoDial
            /\ UNCHANGED <<from_username, rx, tx, sent, sink, reply>>
  /\ UNCHANGED <<is_running, tcp_server, connections, hbpc, regVars, histVars>>

\* connect_to_peer: the response arrives (or the connection ends)
connect_to_peer_recv(c) ==
  LET n == c_init[c]
      t == c_to[c]
  IN
  /\ ist[c] = "wait"
  /\ IF buf[c]["i"] # <<>>
     THEN \E r \in recv(buf[c]["i"]) :
            LET response_data == json_loads(r.data) IN
            IF response_data = JSONDecodeError
            THEN /\ ist' = [ist EXCEPT ![c] = "done"]
                 /\ buf' = Dropped(buf, c, "i")
                 /\ Returned(n, t, FALSE, "error")
                 /\ UNCHANGED <<connections, sock, rx, tx>>
            ELSE IF response_data.type = "connection_accepted"
            THEN /\ connections' = [connections EXCEPT ![n][t] = c]
                 /\ buf' = [buf EXCEPT ![c]["i"] = r.rest]
                 /\ ist' = [ist EXCEPT ![c] = "chat"]
                 /\ rx' = [rx EXCEPT ![c]["i"] = RxEnter(connections', n, t)]
                 /\ tx' = [tx EXCEPT ![c]["i"] = TxEnter(connections', n, t)]
                 /\ dialResult' = NoDial
                 /\ UNCHANGED <<sock, mainpc>>
            ELSE /\ sock' = Closed(sock, c, "i")
                 /\ buf' = Dropped(buf, c, "i")
                 /\ ist' = [ist EXCEPT ![c] = "done"]
                 /\ Returned(n, t, FALSE, "rejected")
                 /\ UNCHANGED <<connections, rx, tx>>
     ELSE /\ sock[c]["r"] = "closed"
          /\ ist' = [ist EXCEPT ![c] = "done"]
          /\ Returned(n, t, FALSE, "error")
          /\ UNCHANGED <<connections, sock, buf, rx, tx>>
  /\ UNCHANGED <<is_running, tcp_server, target_username, hbpc, c_init, c_to,
                 from_username, hst, sent, sink, reply, regVars, histVars>>

\* connect_to_peer: nothing arrives within the socket's timeout
connect_to_peer_timeout(c) ==
  /\ ist[c] = "wait"
  /\ buf[c]["i"] = <<>>
  /\ sock' = Closed(sock, c, "i")
  /\ buf' = Dropped(buf, c, "i")
  /\ ist' = [ist EXCEPT ![c] = "done"]
  /\ Returned(c_init[c], c_to[c], FALSE, "timeout")
  /\ UNCHANGED <<is_running, tcp_server, connections, target_username, hbpc,
                 c_init, c_to, from_username, hst, rx, tx, sent, sink, reply,
                 regVars, histVars>>

\* accept_connections: one turn of the loop
\* an accept loop that runs each handler itself: it is back at accept()
\* only when no handler of node n is at work
handler_inline(n) ==
  \A c \in Conns : c_to[c] = n => hst[c] \notin {"recv", "consent", "chat"}

\* the accept loop of node n is at accept(): every accepted socket is handed
\* to a new thread, and thread.start() returns at once
handler_thread(n) == TRUE

accept_connections(c) ==
  /\ hst[c] = "backlog"
  /\ handler_thread(c_to[c])
  /\ is_running[c_to[c]]
  /\ tcp_server[c_to[c]] = "listening"
  /\ hst' = [hst EXCEPT ![c] = "recv"]
  /\ dialResult' = NoDial
  /\ UNCHANGED <<nodeVars, c_init, c_to, from_username, ist, sock, buf, rx, tx,
                 sent, sink, reply, regVars, histVars>>

\* handle_incoming_connection: the first recv
handle_incoming_connection(c) ==
  /\ hst[c] = "recv"
  /\ IF buf[c]["r"] # <<>>
     THEN \E r \in recv(buf[c]["r"]) :
            LET connection_request == json_loads(r.data) IN
            IF connection_request = JSONDecodeError
            THEN /\ sock' = Closed(sock, c, "r")
                 /\ buf' = Dropped(buf, c, "r")
                 /\ hst' = [hst EXCEPT ![c] = "done"]
                 /\ UNCHANGED from_username
            ELSE IF connection_request.type = "connect_request"
            THEN /\ from_username' = [from_username EXCEPT ![c] = connection_request.username]
                 /\ buf' = [buf EXCEPT ![c]["r"] = r.rest]
                 /\ hst' = [hst EXCEPT ![c] = "consent"]
                 /\ UNCHANGED sock
            ELSE /\ buf' = Dropped(buf, c, "r")
                 /\ hst' = [hst EXCEPT ![c] = "done"]
                 /\ UNCHANGED <<sock, from_username>>
     ELSE /\ sock[c]["i"] = "closed"
          /\ hst' = [hst EXCEPT ![c] = "done"]
          /\ UNCHANGED <<sock, buf, from_username>>
  /\ dialResult' = NoDial
  /\ UNCHANGED <<nodeVars, c_init, c_to, ist, rx, tx, sent, sink, reply,
                 regVars, histVars>>

\* handle_incoming_connection: the answer typed at the prompt, and what follows
handle_incoming_decide(c, response) ==
  LET n == c_to[c]
      key == from_username[c]
  IN
  /\ hst[c] = "consent"
  /\ \E raises \in BOOLEAN :
       /\ raises => sock[c]["i"] = "closed"
       /\ IF raises
          THEN /\ sock' = Closed(sock, c, "r")
               /\ buf' = Dropped(buf, c, "r")
               /\ hst' = [hst EXCEPT ![c] = "done"]
               /\ UNCHANGED <<connections, rx, tx, reply>>
          ELSE IF response = "y"
          THEN /\ buf' = Delivered(buf, sock, c, "r", accept_msg(n))
               /\ reply' = [reply EXCEPT ![c] = "accepted"]
               /\ connections' = [connections EXCEPT ![n][key] = c]
               /\ rx' = [rx EXCEPT ![c]["r"] = RxEnter(connections', n, key)]
               /\ tx' = [tx EXCEPT ![c]["r"] = TxEnter(connections', n, key)]
               /\ hst' = [hst EXCEPT ![c] =
                            IF TxEnter(connections', n, key) = "done" THEN "done" ELSE "chat"]
               /\ UNCHANGED sock
          ELSE /\ sock' = Closed(sock, c, "r")
               /\ buf' = Dropped(Delivered(buf, sock, c, "r", reject_msg(n)), c, "r")
               /\ reply' = [reply EXCEPT ![c] = "rejected"]
               /\ hst' = [hst EXCEPT ![c] = "done"]
               /\ UNCHANGED <<connections, rx, tx>>
  /\ dialResult' = NoDial
  /\ UNCHANGED <<is_running, tcp_server, mainpc, target_username, hbpc, c_init,
                 c_to, from_username, ist, sent, sink, regVars, histVars>>

\* receive_messages: one recv and what the loop does with it
receive_messages(c, e) ==
  LET n == NodeOf(c, e)
      key == KeyOf(c, e)
      break == AfterBreak(connections, n, key)
      again == RxEnter(connections, n, key)
  IN
  /\ rx[c][e] = "recv"
  /\ IF sock[c][e] = "closed"
     THEN /\ rx' = [rx EXCEPT ![c][e] = break]
          /\ UNCHANGED <<buf, sink>>
     ELSE IF buf[c][e] # <<>>
     THEN \E r \in recv(buf[c][e]) :
            LET message_data_in == json_loads(r.data) IN
            /\ buf' = IF message_data_in \in {JSONDecodeError} \/ message_data_in.type = "disconnect"
                       THEN Dropped(buf, c, e)
                       ELSE [buf EXCEPT ![c][e] = r.rest]
            /\ IF message_data_in = JSONDecodeError
               THEN /\ rx' = [rx EXCEPT ![c][e] = break]
                    /\ UNCHANGED sink
               ELSE IF message_data_in.type = "message"
               THEN /\ sink' = [sink EXCEPT ![c][e] = Append(@, message_data_in.content)]
                    /\ rx' = [rx EXCEPT ![c][e] = again]
               ELSE IF message_data_in.type = "disconnect"
               THEN /\ rx' = [rx EXCEPT ![c][e] = break]
                    /\ UNCHANGED sink
               ELSE /\ rx' = [rx EXCEPT ![c][e] = again]
                    /\ UNCHANGED sink
     ELSE /\ sock[c][Other(e)] = "closed"
          /\ rx' = [rx EXCEPT ![c][e] = break]
          /\ UNCHANGED <<buf, sink>>
  /\ dialResult' = NoDial
  /\ UNCHANGED <<nodeVars, c_init, c_to, from_username, ist, hst, sock, tx, sent,
                 reply, regVars, histVars>>

\* receive_messages on the dialer's socket: settimeout(10) is still in force
receive_timeout(c) ==
  /\ rx[c]["i"] = "recv"
  /\ sock[c]["i"] = "open"
  /\ buf[c]["i"] = <<>>
  /\ rx' = [rx EXCEPT ![c]["i"] = AfterBreak(connections, c_init[c], c_to[c])]
  /\ dialResult' = NoDial
  /\ UNCHANGED <<nodeVars, c_init, c_to, from_username, ist, hst, sock, buf, tx,
                 sent, sink, reply, regVars, histVars>>

\* self.connections.clear()
clear_connections(n, key) == [connections EXCEPT ![n] = [u \in Usernames |-> 0]]

\* del self.connections[peer_username]
del_connections(n, key) == [connections EXCEPT ![n][key] = 0]

\* receive_messages, clean up: del self.connections[peer_username]
receive_del(c, e) ==
  LET n == NodeOf(c, e)
      key == KeyOf(c, e)
  IN
  /\ rx[c][e] = "del"
  /\ IF connections[n][key] # 0
     THEN /\ connections' = del_connections(n, key)
          /\ rx' = [rx EXCEPT ![c][e] = "close"]
     ELSE /\ rx' = [rx EXCEPT ![c][e] = "dead"]
          /\ UNCHANGED connections
  /\ dialResult' = NoDial
  /\ UNCHANGED <<is_running, tcp_server, mainpc, target_username, hbpc, c_init,
                 c_to, from_username, ist, hst, sock, buf, tx, sent, sink,
                 reply, regVars, histVars>>

\* receive_messages, clean up: peer_socket.close()
receive_close(c, e) ==
  /\ rx[c][e] = "close"
  /\ sock' = Closed(sock, c, e)
  /\ buf' = Dropped(buf, c, e)
  /\ rx' = [rx EXCEPT ![c][e] = "done"]
  /\ dialResult' = NoDial
  /\ UNCHANGED <<nodeVars, c_init, c_to, from_username, ist, hst, tx, sent, sink,
                 reply, regVars, histVars>>

\* send_thread.join() returns: chat_with_peer and its caller return
Joined(c, e) ==
  IF e = "i"
  THEN /\ ist' = [ist EXCEPT ![c] = "done"]
       /\ IF ist[c] = "chat"
          THEN Returned(c_init[c], c_to[c], TRUE, "accepted")
          ELSE dialResult' = NoDial /\ UNCHANGED mainpc
       /\ UNCHANGED hst
  ELSE /\ hst' = [hst EXCEPT ![c] = "done"]
       /\ dialResult' = NoDial
       /\ UNCHANGED <<ist, mainpc>>

\* send_messages: one line from input() and what the loop does with it
send_messages(c, e, message) ==
  LET n == NodeOf(c, e)
      key == KeyOf(c, e)
  IN
  /\ tx[c][e] = "input"
  /\ \E raises \in BOOLEAN :
       /\ raises => (sock[c][e] = "closed" \/ sock[c][Other(e)] = "closed")
       /\ sock[c][e] = "closed" => raises
       /\ IF raises
          THEN /\ tx' = [tx EXCEPT ![c][e] = "done"]
               /\ Joined(c, e)
               /\ UNCHANGED <<connections, sock, buf, sent>>
          ELSE IF message = "/exit"
          THEN /\ connections' = [connections EXCEPT ![n][key] = 0]
               /\ sock' = Closed(sock, c, e)
               /\ buf' = Dropped(Delivered(buf, sock, c, e, disconnect_msg(n)), c, e)
               /\ tx' = [tx EXCEPT ![c][e] = "done"]
               /\ Joined(c, e)
               /\ UNCHANGED sent
          ELSE /\ message = Line(Len(sent[c][e]) + 1)
               /\ buf' = Delivered(buf, sock, c, e, message_data(n, message))
               /\ sent' = [sent EXCEPT ![c][e] = Append(@, message)]
               /\ tx' = [tx EXCEPT ![c][e] = TxEnter(connections, n, key)]
               /\ IF TxEnter(connections, n, key) = "done"
                  THEN Joined(c, e)
                  ELSE dialResult' = NoDial /\ UNCHANGED <<ist, hst, mainpc>>
               /\ UNCHANGED <<connections, sock>>
  /\ UNCHANGED <<is_running, tcp_server, target_username, hbpc, c_init, c_to,
                 from_username, rx, sink, reply, regVars, histVars>>

\* Peer.unregister, called by main() on menu option 4 or on KeyboardInterrupt
Peer_unregister(n) ==
  LET mine == {c \in Conns : \E u \in Usernames : connections[n][u] = c}
      queued == {c \in Conns : c_to[c] = n /\ hst[c] = "backlog"}
  IN
  /\ mainpc[n] \in {"menu", "call", "dial"}
  /\ target_username' = [target_username EXCEPT ![n] = "none"]
  /\ is_running' = [is_running EXCEPT ![n] = FALSE]
  /\ sock' = [c \in Conns |-> [e \in Ends |->
                IF (c \in mine /\ e = EndOf(c, n)) \/ (c \in queued /\ e = "r")
                THEN "closed" ELSE sock[c][e]]]
  /\ buf' = [c \in Conns |-> [e \in Ends |->
                IF (c \in mine /\ e = EndOf(c, n)) \/ (c \in queued /\ e = "r")
                THEN <<>> ELSE buf[c][e]]]
  /\ connections' = [connections EXCEPT ![n] = [u \in Usernames |-> 0]]
  /\ tcp_server' = [tcp_server EXCEPT ![n] = "closed"]
  /\ hst' = [c \in Conns |-> IF c \in queued THEN "done" ELSE hst[c]]
  /\ ist' = [c \in Conns |-> IF c_init[c] = n /\ ist[c] \in {"wait", "chat"}
                             THEN "done" ELSE ist[c]]
  /\ unregister(n) \/ HttpFails
  /\ mainpc' = [mainpc EXCEPT ![n] = "stopped"]
  /\ UNCHANGED <<now, sweepDue, resp>>
  /\ dialResult' = NoDial
  /\ UNCHANGED <<hbpc, c_init, c_to, from_username, rx, tx, sent,
                 sink, reply, histVars>>

\* main() returns: the process ends, with its daemon threads and its sockets
\* threads the interpreter waits for when main() returns
non_daemon == FALSE

\* every thread of the Peer is created with daemon=True
daemon == TRUE

\* no thread of node n is left running
Finished(n) ==
  /\ hbpc[n] \in {"none", "done"}
  /\ \A c \in Conns :
       /\ c_to[c] = n => hst[c] \in {"none", "backlog", "chat", "done"}
       /\ \A e \in Ends :
            (c_init[c] # "none" /\ NodeOf(c, e) = n) =>
               /\ rx[c][e] \in {"none", "done", "dead"}
               /\ tx[c][e] \in {"none", "done", "dead"}

\* main() has returned: the interpreter exits, and daemon threads end with it
ProcessExit(n) ==
  LET Mine(c, e) == c_init[c] # "none" /\ NodeOf(c, e) = n IN
  /\ mainpc[n] = "stopped"
  /\ daemon \/ Finished(n)
  /\ mainpc' = [mainpc EXCEPT ![n] = "exited"]
  /\ hbpc' = [hbpc EXCEPT ![n] = "done"]
  /\ sock' = [c \in Conns |-> [e \in Ends |->
                IF Mine(c, e) THEN "closed" ELSE sock[c][e]]]
  /\ buf' = [c \in Conns |-> [e \in Ends |->
                IF Mine(c, e) THEN <<>> ELSE buf[c][e]]]
  /\ rx' = [c \in Conns |-> [e \in Ends |->
                IF Mine(c, e) /\ rx[c][e] \notin {"none", "done"} THEN "dead" ELSE rx[c][e]]]
  /\ tx' = [c \in Conns |-> [e \in Ends |->
                IF Mine(c, e) /\ tx[c][e] \notin {"none", "done"} THEN "dead" ELSE tx[c][e]]]
  /\ hst' = [c \in Conns |-> IF c_to[c] = n /\ hst[c] # "none" THEN "done" ELSE hst[c]]
  /\ dialResult' = NoDial
  /\ UNCHANGED <<is_running, tcp_server, connections, target_username, c_init,
                 c_to, from_username, ist, sent, sink, reply, regVars, histVars>>

(***************************************************************************)
(* The registry under arbitrary callers, with time.                        *)
(***************************************************************************)
\* the TTL of the store in use
TTL == IF redis_client THEN RedisTTL ELSE MemTTL

CallRegister ==
  \E u \in Pair, ip \in Ips, port \in Ports :
    /\ ncalls < MaxCalls
    /\ register(u, ip, port)
    /\ resp' = register_response(u, ip, port)
    /\ ncalls' = ncalls + 1
    /\ IF u = Watched THEN /\ lastCall' = "register"
       /\ lastAddr' = [ip_address |-> ip, port |-> port]
       /\ lastTouch' = now
       /\ kept' = TRUE
       ELSE UNCHANGED <<lastCall, lastAddr, lastTouch, kept>>
    /\ UNCHANGED <<calls, peerVars>>

CallHeartbeat ==
  \E u \in Pair :
    /\ ncalls < MaxCalls
    /\ heartbeat(u)
    /\ resp' = heartbeat_response(u)
    /\ ncalls' = ncalls + 1
    /\ IF u = Watched THEN /\ lastCall' = "heartbeat"
       /\ lastTouch' = now
       /\ UNCHANGED <<lastAddr, kept>>
       ELSE UNCHANGED <<lastCall, lastAddr, lastTouch, kept>>
    /\ UNCHANGED <<calls, peerVars>>

CallUnregister ==
  \E u \in Pair :
    /\ ncalls < MaxCalls
    /\ unregister(u)
    /\ resp' = unregister_response(u)
    /\ ncalls' = ncalls + 1
    /\ IF u = Watched THEN /\ lastCall' = "unregister"
       /\ kept' = FALSE
       /\ UNCHANGED <<lastAddr, lastTouch>>
       ELSE UNCHANGED <<lastCall, lastAddr, lastTouch, kept>>
    /\ UNCHANGED <<calls, peerVars>>

\* one sweep interval passes; Redis drops the keys whose expiry has come
Tick ==
  /\ ~sweepDue
  /\ now < MaxTime
  /\ now' = now + SweepInterval
  /\ sweepDue' = TRUE
  /\ redis_hash' = [u \in Usernames |->
                      IF redis_hash[u] # None /\ redis_expire[u] <= now'
                      THEN None ELSE redis_hash[u]]
  /\ kept' = (kept /\ now' - lastTouch < TTL)
  /\ resp' = NoResp
  /\ UNCHANGED <<redis_client, peers, redis_expire, online_peers>>
  /\ UNCHANGED <<ncalls, lastCall, lastAddr, lastTouch, calls>>
  /\ UNCHANGED peerVars

Sweep == cleanup_old_peers /\ resp' = NoResp /\ UNCHANGED <<histVars, peerVars>>

Init ==
  /\ redis_client \in BOOLEAN
  /\ peers = [u \in Usernames |-> None]
  /\ redis_hash = [u \in Usernames |-> None]
  /\ redis_expire = [u \in Usernames |-> 0]
  /\ online_peers = {}
  /\ now = 0
  /\ sweepDue = FALSE
  /\ resp = NoResp
  /\ ncalls = 0
  /\ lastCall = "none"
  /\ lastAddr = NoAddr
  /\ lastTouch = 0
  /\ kept = FALSE
  /\ calls = [t \in {cleanup_thread} \cup Threads |->
                IF t = cleanup_thread THEN Waiting ELSE Idle]
  /\ InitPeers

NextRegistry ==
  \/ CallRegister
  \/ CallHeartbeat
  \/ CallUnregister
  \/ Tick
  \/ Sweep

SpecRegistry == Init /\ [][NextRegistry]_vars

\* the peers, with a registry that found no Redis when it started
InitPeer == Init /\ ~redis_client

\* no more than ChatConns connections are dialed
ChatSlots == Dials <= ChatConns

\* Two nodes through their whole life, text chat included, with ChatConns
\* connections between them.
NextChat ==
  \/ \E n \in Pair : Start(n)
  \/ \E n \in Pair : start_heartbeat(n)
  \/ \E n \in Pair : heartbeat_loop_except(n)
  \/ \E n \in Pair, t \in Pair : main_connect(n, t) /\ ChatSlots'
  \/ \E n \in Pair, t \in Pair : connect_to_peer(n, t)
  \/ \E c \in Conns : connect_to_peer_recv(c)
  \/ \E c \in Conns : connect_to_peer_timeout(c)
  \/ \E c \in Conns : accept_connections(c)
  \/ \E c \in Conns : handle_incoming_connection(c)
  \/ \E c \in Conns, response \in {"y", "n"} : handle_incoming_decide(c, response)
  \/ \E c \in Conns, e \in Ends : receive_messages(c, e)
  \/ \E c \in Conns : receive_timeout(c)
  \/ \E c \in Conns, e \in Ends : receive_del(c, e)
  \/ \E c \in Conns, e \in Ends : receive_close(c, e)
  \/ \E c \in Conns, e \in Ends, message \in InputLines :
       send_messages(c, e, message)
  \/ \E n \in Pair : Peer_unregister(n)
  \/ \E n \in Pair : ProcessExit(n)

SpecChat == InitPeer /\ [][NextChat]_vars

\* Two running nodes that dial each other, MaxConns connections in all: the
\* handshakes and the sessions they start, ended by /exit, by the peer or by
\* the dial timeout.
NextDial ==
  \/ \E n \in Pair : Start(n)
  \/ \E n \in Pair, t \in Pair : main_connect(n, t)
  \/ \E n \in Pair, t \in Pair : connect_to_peer(n, t)
  \/ \E c \in Conns : connect_to_peer_recv(c)
  \/ \E c \in Conns : connect_to_peer_timeout(c)
  \/ \E c \in Conns : accept_connections(c)
  \/ \E c \in Conns : handle_incoming_connection(c)
  \/ \E c \in Conns, response \in {"y", "n"} : handle_incoming_decide(c, response)
  \/ \E c \in Conns, e \in Ends : receive_messages(c, e)
  \/ \E c \in Conns : receive_timeout(c)
  \/ \E c \in Conns, e \in Ends : receive_del(c, e)
  \/ \E c \in Conns, e \in Ends : receive_close(c, e)
  \/ \E c \in Conns, e \in Ends : send_messages(c, e, "/exit")

SpecDial == InitPeer /\ [][NextDial]_vars

(***************************************************************************)
(* Claims about the registry.                                              *)
(***************************************************************************)
\* the usernames GET /peers returns
ListedOnline == {peer.username : peer \in get_peers}

\* C1: after any sequence of register / heartbeat / unregister calls on one
\* username whose record has not expired, lookup reflects the last write: the
\* status is offline if the last call was unregister and online if it was
\* register or heartbeat, and the address is the one passed to the most
\* recent register.
C1_LookupReflectsLastWrite ==
  LET r == peerinfo(Watched) IN
  (r.code = 200 /\ now - lastTouch <= TTL) =>
    /\ lastCall = "unregister" => r.peer.status = "offline"
    /\ lastCall \in {"register", "heartbeat"} => r.peer.status = "online"
    /\ r.peer.ip_address = lastAddr.ip_address
    /\ int(r.peer.port) = lastAddr.port

\* C2: register on a username that already has a record never fails and
\* returns the record as it is after the call: status online, lastSeen
\* refreshed, the address of this call; and registering a second time with the
\* same arguments leaves the stored status and address as they were.
C2_ReRegisterReturnsResultingRecord ==
  /\ [](resp.op = "register" /\ resp.existed =>
          /\ resp.code = 200
          /\ resp.peer = get_peer_info(resp.username)
          /\ resp.peer.status = "online"
          /\ resp.peer.last_seen = now
          /\ resp.peer.ip_address = resp.ip_address
          /\ int(resp.peer.port) = resp.port)
  /\ [][\A ip \in Ips, port \in Ports :
          (/\ lastCall = "register"
           /\ lastAddr = [ip_address |-> ip, port |-> port]
           /\ get_peer_info(Watched) # None
           /\ register(Watched, ip, port))
          => /\ get_peer_info(Watched)' # None
             /\ get_peer_info(Watched)'.status = get_peer_info(Watched).status
             /\ get_peer_info(Watched)'.ip_address = get_peer_info(Watched).ip_address
             /\ get_peer_info(Watched)'.port = get_peer_info(Watched).port]_vars

\* C3: in every state where a username has had no register or heartbeat for
\* longer than the TTL, GET /peers does not return it, whichever store is used.
C3_StaleRecordNotListed ==
  now - lastTouch > TTL => Watched \notin ListedOnline

\* C4: a username that registered and has since sent heartbeats at intervals
\* shorter than the TTL, without unregistering, is returned by GET /peers and
\* resolved by lookup in every later state.
C4_HeartbeatKeepsOnline ==
  kept => /\ Watched \in ListedOnline
          /\ peerinfo(Watched).code = 200

\* C5: right after unregister on an existing record, the username is not
\* returned by GET /peers and lookup still returns its record, with status
\* offline, whichever store is used.
C5_UnregisterMarksOffline ==
  (resp.op = "unregister" /\ resp.existed) =>
    /\ resp.username \notin ListedOnline
    /\ peerinfo(resp.username).code = 200
    /\ peerinfo(resp.username).peer.status = "offline"

(***************************************************************************)
(* Two registries, one on Redis and one that found no Redis, given the     *)
(* same calls at the same times.  redis_client tells which of the two the  *)
(* handlers address; the other one's data is left alone meanwhile.         *)
(***************************************************************************)
\* what GET /peerinfo answers for a username, as a client reads it
Lookup(username) ==
  LET r == peerinfo(username) IN
  IF r.code = 200
  THEN [code |-> 200, status |-> r.peer.status,
        ip_address |-> r.peer.ip_address, port |-> int(r.peer.port)]
  ELSE [code |-> 404]
\* what the registry addressed answers to GET /peers and GET /peerinfo
Seen ==
  [op |-> "seen", listed |-> ListedOnline,
   lookup |-> [u \in Usernames |-> Lookup(u)]]

\* both registries have had the same calls
Synced == ~redis_client /\ resp.op \in {"none", "seen"}

\* address the other registry
Turn ==
  /\ \/ ~redis_client /\ resp.op \in {"none", "register", "heartbeat", "unregister"}
     \/ redis_client /\ resp.op = "seen"
  /\ redis_client' = ~redis_client
  /\ UNCHANGED <<peers, redis_hash, redis_expire, online_peers, now, sweepDue,
                 resp, histVars, peerVars>>

\* the Redis registry gets the call the other one has just had, and is read
Replay ==
  /\ redis_client
  /\ resp.op \in {"register", "heartbeat", "unregister"}
  /\ IF resp.op = "register"
     THEN register(resp.username, resp.ip_address, resp.port)
     ELSE IF resp.op = "heartbeat"
     THEN heartbeat(resp.username)
     ELSE unregister(resp.username)
  /\ resp' = Seen'
  /\ UNCHANGED <<histVars, peerVars>>

\* the Redis registry is read
Observe ==
  /\ redis_client
  /\ resp.op = "none"
  /\ resp' = Seen
  /\ UNCHANGED <<storeVars, now, sweepDue, histVars, peerVars>>

InitStores == Init /\ ~redis_client

NextStores ==
  \/ Synced /\ CallRegister
  \/ Synced /\ CallHeartbeat
  \/ Synced /\ CallUnregister
  \/ Synced /\ Tick
  \/ Synced /\ Sweep
  \/ Turn
  \/ Replay
  \/ Observe

SpecStores == InitStores /\ [][NextStores]_vars

\* C11: after the same calls at the same times, the in-memory registry
\* answers GET /peers and GET /peerinfo as the Redis registry does: the same
\* usernames listed, and for every username the same status and address or
\* the same 404.
C11_StoresAgree ==
  (~redis_client /\ resp.op = "seen") =>
    /\ ListedOnline = resp.listed
    /\ \A u \in Usernames : Lookup(u) = resp.lookup[u]

(***************************************************************************)
(* Claims about the handshake and the sessions.                            *)
(***************************************************************************)
\* end e of connection c got a Session: chat_with_peer was entered there
HadSession(c, e) == rx[c][e] # "none"
\* the Sessions of node n with remote username u: a live socket of n whose
\* inbound flow runs under the key u
SessionsOf(n, u) ==
  {c \in Conns : \E e \in Ends :
     /\ c_init[c] # "none"
     /\ NodeOf(c, e) = n
     /\ KeyOf(c, e) = u
     /\ rx[c][e] \in {"recv", "del", "close"}
     /\ sock[c][e] = "open"}

\* C6: a handshake answered with connection_rejected leaves no table entry
\* for the connection on either side and, once connect_to_peer has returned,
\* the dialer's socket closed; a handshake answered with connection_accepted
\* gives the responder a Session keyed by the dialer's username and, once the
\* dialer is through waiting for the answer, the dialer a Session keyed by
\* the responder's username.
C6_HandshakeOutcome ==
  \A c \in Conns :
    /\ reply[c] = "rejected" =>
         /\ ~HadSession(c, "i") /\ ~HadSession(c, "r")
         /\ \A n \in Usernames, u \in Usernames : connections[n][u] # c
         /\ ist[c] = "done" => sock[c]["i"] = "closed"
    /\ reply[c] = "accepted" =>
         /\ HadSession(c, "r")
         /\ from_username[c] = c_init[c]
         /\ ist[c] # "wait" => HadSession(c, "i")

\* C7: a node never has two Sessions with one remote username, and no step
\* replaces the socket stored under a username by another socket.
C7_OneSessionPerUsername ==
  /\ [](\A n \in Usernames, u \in Usernames : Cardinality(SessionsOf(n, u)) <= 1)
  /\ [][\A n \in Usernames, u \in Usernames :
          connections[n][u] # 0 => connections'[n][u] \in {0, connections[n][u]}]_vars

\* C10: a dial whose lookup yields no record returns False ("not found"), and
\* a dial of a username that has a record and is a key of the table returns
\* True ("Already connected"); neither opens a socket, sends a message or
\* changes the table, and no socket is ever opened towards a username that
\* has no record or is a key of the dialer's table.
C10_DialErrorOutcomes ==
  [][/\ dialResult'.outcome = "not_found" =>
          /\ ~dialResult'.ret
          /\ UNCHANGED <<connVars, connections>>
     /\ dialResult'.outcome = "already_connected" =>
          /\ dialResult'.ret
          /\ connections[dialResult'.node][dialResult'.target] # 0
          /\ peerinfo(dialResult'.target).code = 200
          /\ UNCHANGED <<connVars, connections>>
     /\ \A c \in Conns :
          (c_init[c] = "none" /\ c_init'[c] # "none") =>
            /\ connections[c_init'[c]][c_to'[c]] = 0
            /\ peerinfo(c_to'[c]).code = 200]_vars

\* a dial has returned "Already connected"
C10_Witness == dialResult.outcome = "already_connected" /\ dialResult.ret

\* C10 as stated: the dial of a username that is a key of the table fails
\* with AlreadyConnected
C10_AsStated ==
  [][\A n \in Usernames, t \in Usernames :
       (connect_to_peer(n, t) /\ connections[n][t] # 0) =>
          /\ dialResult'.outcome = "already_connected"
          /\ ~dialResult'.ret
          /\ UNCHANGED <<connVars, connections>>]_vars

\* the contents of the Text messages among the bytes b
TextsIn(b) ==
  LET IsText(x) == x.msg.type = "message" /\ x.part \in {"whole", "tail"}
      texts == SelectSeq(b, IsText)
  IN [k \in 1..Len(texts) |-> texts[k].msg.content]
IsPrefix(a, b) == Len(a) <= Len(b) /\ SubSeq(b, 1, Len(a)) = a

\* C8: what an end has printed is a prefix of what the other end has sent,
\* and a read by the inbound flow of a Session whose two sockets are open and
\* whose unread bytes are Text messages prints every Text it takes off the
\* socket, in order.
C8_TextDelivery ==
  /\ [](\A c \in Conns, e \in Ends : IsPrefix(sink[c][e], sent[c][Other(e)]))
  /\ [][\A c \in Conns, e \in Ends :
          (/\ receive_messages(c, e)
           /\ sock[c][e] = "open" /\ sock[c][Other(e)] = "open"
           /\ \A k \in 1..Len(buf[c][e]) : buf[c][e][k].msg.type = "message")
          => sink'[c][e] \o TextsIn(buf'[c][e]) = sink[c][e] \o TextsIn(buf[c][e])]_vars

\* The threads of SpecDial keep running: a thread that can take its next step
\* without waiting for the user takes it.  What the user types (a dial, the
\* answer to the consent prompt, a chat line) may never come.
FairDial ==
  /\ \A c \in Conns :
       /\ WF_vars(accept_connections(c))
       /\ WF_vars(handle_incoming_connection(c))
       /\ WF_vars(connect_to_peer_recv(c))
       /\ WF_vars(connect_to_peer_timeout(c))
       /\ WF_vars(receive_timeout(c))
  /\ \A c \in Conns, e \in Ends :
       /\ WF_vars(receive_messages(c, e))
       /\ WF_vars(receive_del(c, e))
       /\ WF_vars(receive_close(c, e))

FairSpecDial == SpecDial /\ FairDial

\* a socket of connection c has been closed (a Disconnect is followed by the
\* close of the socket it was sent on)
Closing(c) == sock[c]["i"] = "closed" \/ sock[c]["r"] = "closed"
\* end e of c has its socket closed, or no thread holds the socket any more
\* (an unreferenced socket is closed by the interpreter), and the table of its
\* node does not hold it
Released(c, e) ==
  /\ \/ sock[c][e] = "closed"
     \/ rx[c][e] \in {"done", "dead"} /\ tx[c][e] \in {"done", "dead"}
  /\ \A n \in Usernames, u \in Usernames :
       (n = NodeOf(c, e) /\ u = KeyOf(c, e)) => connections[n][u] # c

\* C9: once a socket of a connection is closed, every end of it that got a
\* Session eventually has its socket released and its table entry removed.
C9_TeardownBothSides ==
  \A c \in Conns, e \in Ends :
    (HadSession(c, e) /\ Closing(c)) ~> Released(c, e)

(***************************************************************************)
(* Claims about shutdown, handshake failures and framing.                  *)
(***************************************************************************)
\* the ends of connections that are Session sockets of node n
SessionEnds(n) ==
  {<<c, e>> \in Conns \X Ends :
     c_init[c] # "none" /\ NodeOf(c, e) = n /\ HadSession(c, e)}

\* C12: the step of Peer.unregister leaves the running flag false, the
\* listening socket closed, the table empty and every Session socket of the
\* node closed, whether the registry is reached or not; and from then on no
\* entry is put into the node's table.
C12_ShutdownCompletes ==
  /\ [][\A n \in Usernames :
          (mainpc[n] # "stopped" /\ mainpc'[n] = "stopped") =>
             /\ ~is_running'[n]
             /\ tcp_server'[n] = "closed"
             /\ \A u \in Usernames : connections'[n][u] = 0
             /\ \A x \in SessionEnds(n) : sock'[x[1]][x[2]] = "closed"]_vars
  /\ [][\A n \in Usernames, u \in Usernames :
          mainpc[n] \in {"stopped", "exited"} => connections'[n][u] = 0]_vars

\* the table of node n holds connection c
InTable(n, c) == \E u \in Usernames : connections[n][u] = c

\* C13: a handshake whose socket has been closed by the other side, or whose
\* read does not yield the expected message, adds no Session: on the
\* responder, no step taken while the handshake is pending and the dialer's
\* socket is closed makes the connection a Session of the responder; on the
\* dialer, the wait for the reply that ends on a closed connection or on bytes
\* that do not decode returns False without a Session.
C13_HandshakeFailure ==
  /\ [][\A c \in Conns :
          (hst[c] \in {"recv", "consent"} /\ sock[c]["i"] = "closed") =>
             (~HadSession(c, "r")' /\ ~InTable(c_to[c], c)')]_vars
  /\ [][\A c \in Conns :
          (/\ ist[c] = "wait" /\ ist'[c] = "done"
           /\ \/ buf[c]["i"] = <<>>
              \/ dialResult'.outcome = "error") =>
             /\ ~HadSession(c, "i")'
             /\ ~InTable(c_init[c], c)'
             /\ ~dialResult'.ret]_vars

\* C14: a read on a socket that holds complete messages decodes exactly the
\* first of them and leaves the rest for the next read: a session read prints
\* a Text and goes on, or ends on a Disconnect; the handler's read yields the
\* connect_request; the dialer's read yields the reply.
C14_OneMessagePerDecode ==
  /\ [][\A c \in Conns, e \in Ends :
          (/\ receive_messages(c, e)
           /\ sock[c][e] = "open"
           /\ buf[c][e] # <<>>
           /\ \A k \in 1..Len(buf[c][e]) : buf[c][e][k].part = "whole") =>
             LET m == Head(buf[c][e]).msg IN
             IF m.type = "message"
             THEN /\ sink'[c][e] = Append(sink[c][e], m.content)
                  /\ buf'[c][e] = Tail(buf[c][e])
             ELSE m.type = "disconnect" /\ rx'[c][e] # "recv"]_vars
  /\ [][\A c \in Conns :
          (handle_incoming_connection(c) /\ buf[c]["r"] # <<>>) =>
             (hst'[c] = "consent" /\ buf'[c]["r"] = Tail(buf[c]["r"]))]_vars
  /\ [][\A c \in Conns :
          (connect_to_peer_recv(c) /\ buf[c]["i"] # <<>>) =>
             dialResult'.outcome # "error"]_vars

\* C15: the inbound flow of a Session leaves its recv only when bytes have
\* arrived (a Disconnect, or something that does not decode), when a socket
\* of the connection has been closed, or when the node is shutting down;
\* never because nothing arrives.
C15_NoIdleTermination ==
  [][\A c \in Conns, e \in Ends :
       (rx[c][e] = "recv" /\ rx'[c][e] # "recv") =>
          \/ buf[c][e] # <<>>
          \/ sock[c][e] = "closed"
          \/ sock[c][Other(e)] = "closed"
          \/ ~is_running[NodeOf(c, e)]
          \/ mainpc'[NodeOf(c, e)] = "exited"]_vars

(***************************************************************************)
(* The registry's handlers as concurrent threads: each step is one command *)
(* on the store (one Redis command, or one operation on the dict).          *)
(***************************************************************************)
\* the expiry of a key that has no TTL
NoTTL == MaxTime + RedisTTL + 1

\* redis exists(key)
exists(username) == redis_hash[username] # None /\ now < redis_expire[username]

\* redis hset(key, field, value): sets the field, creating the hash if the
\* key is absent
hset(username, field, value) ==
  /\ redis_hash' = [redis_hash EXCEPT ![username] =
                      IF exists(username) THEN [@ EXCEPT ![field] = value]
                      ELSE (field :> value)]
  /\ redis_expire' = [redis_expire EXCEPT ![username] =
                        IF exists(username) THEN @ ELSE NoTTL]

Goto(t, pc) == calls' = [calls EXCEPT ![t].pc = pc]
Return(t) == calls' = [calls EXCEPT ![t] = Idle]
ThreadFrame == <<redis_client, now, sweepDue, lastCall, lastAddr, lastTouch,
                 kept, peerVars>>

\* a request arrives and a thread starts its handler
Request(t) ==
  /\ calls[t] = Idle
  /\ ncalls < MaxCalls
  /\ ncalls' = ncalls + 1
  /\ \E username \in Pair, ip_address \in Ips, port \in Ports,
        op \in {"register", "heartbeat", "unregister"} :
       /\ calls' = [calls EXCEPT ![t] =
            [pc |-> IF op = "register" THEN "get_peer_info" ELSE "exists",
             op |-> op, username |-> username, ip_address |-> ip_address,
             port |-> port,
             status |-> IF op = "unregister" THEN "offline" ELSE "online"]]
  /\ resp' = NoResp
  /\ UNCHANGED <<storeVars, ThreadFrame>>

\* register(): existing_peer = get_peer_info(username)
register_get_peer_info(t) ==
  /\ calls[t].pc = "get_peer_info"
  /\ IF get_peer_info(calls[t].username) # None
     THEN Goto(t, "exists")
     ELSE Goto(t, "register_peer")
  /\ resp' = NoResp
  /\ UNCHANGED <<storeVars, ncalls, ThreadFrame>>

\* register_peer(): hset(key, mapping=peer_info), or the dict assignment
register_peer_hset(t) ==
  LET c == calls[t] IN
  /\ c.pc = "register_peer"
  /\ IF redis_client
     THEN /\ redis_hash' = [redis_hash EXCEPT ![c.username] =
                hset_mapping(NewPeerInfo(c.username, c.ip_address, c.port))]
          /\ redis_expire' = [redis_expire EXCEPT ![c.username] =
                IF exists(c.username) THEN @ ELSE NoTTL]
          /\ Goto(t, "expire")
          /\ UNCHANGED <<peers, online_peers>>
     ELSE /\ peers' = [peers EXCEPT ![c.username] =
                NewPeerInfo(c.username, c.ip_address, c.port)]
          /\ Return(t)
          /\ UNCHANGED <<redis_hash, redis_expire, online_peers>>
  /\ resp' = NoResp
  /\ UNCHANGED <<ncalls, ThreadFrame>>

\* register_peer(): expire(key, 3600)
register_peer_expire(t) ==
  LET c == calls[t] IN
  /\ c.pc = "expire"
  /\ redis_expire' = [redis_expire EXCEPT ![c.username] =
                        IF exists(c.username) THEN now + RedisTTL ELSE @]
  /\ Goto(t, "sadd")
  /\ resp' = NoResp
  /\ UNCHANGED <<peers, redis_hash, online_peers, ncalls, ThreadFrame>>

\* register_peer(): sadd("online_peers", username)
register_peer_sadd(t) ==
  LET c == calls[t] IN
  /\ c.pc = "sadd"
  /\ online_peers' = online_peers \cup {c.username}
  /\ Return(t)
  /\ resp' = NoResp
  /\ UNCHANGED <<peers, redis_hash, redis_expire, ncalls, ThreadFrame>>

\* update_peer_status(): if self.redis_client: if exists(key)
update_peer_status_exists(t) ==
  LET c == calls[t] IN
  /\ c.pc = "exists"
  /\ IF redis_client /\ exists(c.username)
     THEN Goto(t, "hset_status")
     ELSE Return(t)
  /\ resp' = NoResp
  /\ UNCHANGED <<storeVars, ncalls, ThreadFrame>>

\* update_peer_status(): hset(key, 'status', status)
update_peer_status_hset_status(t) ==
  LET c == calls[t] IN
  /\ c.pc = "hset_status"
  /\ hset(c.username, "status", c.status)
  /\ Goto(t, "hset_last_seen")
  /\ resp' = NoResp
  /\ UNCHANGED <<peers, online_peers, ncalls, ThreadFrame>>

\* update_peer_status(): hset(key, 'last_seen', now)
update_peer_status_hset_last_seen(t) ==
  LET c == calls[t] IN
  /\ c.pc = "hset_last_seen"
  /\ hset(c.username, "last_seen", now)
  /\ Goto(t, "sadd_srem")
  /\ resp' = NoResp
  /\ UNCHANGED <<peers, online_peers, ncalls, ThreadFrame>>

\* update_peer_status(): sadd or srem on "online_peers"
update_peer_status_sadd_srem(t) ==
  LET c == calls[t] IN
  /\ c.pc = "sadd_srem"
  /\ online_peers' = IF c.status = "online"
                     THEN online_peers \cup {c.username}
                     ELSE online_peers \ {c.username}
  /\ Return(t)
  /\ resp' = NoResp
  /\ UNCHANGED <<peers, redis_hash, redis_expire, ncalls, ThreadFrame>>

NextThreads ==
  \/ \E t \in Threads : Request(t)
  \/ \E t \in Threads : register_get_peer_info(t)
  \/ \E t \in Threads : register_peer_hset(t)
  \/ \E t \in Threads : register_peer_expire(t)
  \/ \E t \in Threads : register_peer_sadd(t)
  \/ \E t \in Threads : update_peer_status_exists(t)
  \/ \E t \in Threads : update_peer_status_hset_status(t)
  \/ \E t \in Threads : update_peer_status_hset_last_seen(t)
  \/ \E t \in Threads : update_peer_status_sadd_srem(t)

SpecThreads == Init /\ [][NextThreads]_vars

\* C16: once every register / heartbeat / unregister call has returned, a
\* username is listed by GET /peers if and only if its lookup returns a
\* record whose status is online, whatever the interleaving of the calls.
C16_ConsistentOnceReturned ==
  (\A t \in Threads : calls[t] = Idle) =>
     \A u \in Usernames :
        u \in ListedOnline <=>
          (Lookup(u).code = 200 /\ Lookup(u).status = "online")

(***************************************************************************)
(* Claims about the heartbeat, the teardown and the shutdown of a node.     *)
(***************************************************************************)
\* what a node holds besides its heartbeat thread
NodeState(n) ==
  <<is_running[n], tcp_server[n], connections[n], mainpc[n],
    [x \in SessionEnds(n) |-> <<sock[x[1]][x[2]], rx[x[1]][x[2]], tx[x[1]][x[2]],
                                 sent[x[1]][x[2]], sink[x[1]][x[2]]>>]>>

\* C17: a heartbeat that fails changes neither the running flag nor the
\* session table nor any Session of the node, the failure does not leave the
\* heartbeat loop, and while the node is running the sender stays in its loop
\* for the next interval.
C17_FailedHeartbeatIgnored ==
  /\ [][\A n \in Usernames :
          (hbpc[n] = "loop" /\ hbpc'[n] = "except") => NodeState(n)' = NodeState(n)]_vars
  /\ [][\A n \in Usernames :
          (hbpc[n] = "except" /\ hbpc'[n] # "except" /\ mainpc'[n] # "exited") =>
             hbpc'[n] = "loop" /\ NodeState(n)' = NodeState(n)]_vars
  /\ [][\A n \in Usernames :
          (hbpc[n] = "loop" /\ is_running[n] /\ mainpc'[n] # "exited") =>
             hbpc'[n] \in {"loop", "except"}]_vars

\* a heartbeat of a node with a Session has just failed
C17_Witness ==
  \E n \in Usernames :
     /\ hbpc[n] = "except"
     /\ is_running[n]
     /\ \E x \in SessionEnds(n) : rx[x[1]][x[2]] = "recv"

\* C18: once the inbound flow of a Session has gone through its closing, and
\* when the outbound flow ends the Session on the local end-session command,
\* the socket of the Session is closed and the table of its node no longer
\* holds it.
C18_ClosingReleasesOnce ==
  /\ [](\A c \in Conns, e \in Ends :
          (/\ c_init[c] # "none"
           /\ rx[c][e] \in {"done", "dead"}
           /\ mainpc[NodeOf(c, e)] # "exited") =>
             /\ sock[c][e] = "closed"
             /\ connections[NodeOf(c, e)][KeyOf(c, e)] # c)
  /\ [][\A c \in Conns, e \in Ends :
          (/\ c_init[c] # "none"
           /\ tx[c][e] = "input" /\ tx'[c][e] = "done"
           /\ buf'[c][Other(e)] =
                Append(buf[c][Other(e)], Whole(disconnect_msg(NodeOf(c, e))))) =>
             /\ sock'[c][e] = "closed"
             /\ connections'[NodeOf(c, e)][KeyOf(c, e)] # c]_vars

\* C19: a username absent from the table of a node has no Session on that
\* node still reading from an open socket, and a flow that removes a table
\* entry while it tears its Session down removes the entry of that Session.
C19_AbsentMeansNoSession ==
  /\ [](\A n \in Usernames, u \in Usernames :
          (connections[n][u] = 0 /\ mainpc[n] # "exited") =>
             \A x \in SessionEnds(n) :
                KeyOf(x[1], x[2]) = u =>
                   ~(rx[x[1]][x[2]] = "recv" /\ sock[x[1]][x[2]] = "open"))
  /\ [][\A c \in Conns, e \in Ends :
          (/\ c_init[c] # "none"
           /\ \/ rx[c][e] = "del" /\ rx'[c][e] = "close"
              \/ tx[c][e] = "input" /\ tx'[c][e] = "done"
           /\ connections[NodeOf(c, e)][KeyOf(c, e)] # 0
           /\ connections'[NodeOf(c, e)][KeyOf(c, e)] = 0) =>
             connections[NodeOf(c, e)][KeyOf(c, e)] = c]_vars

\* a node whose main() returns after Peer.unregister, and whose heartbeat
\* thread keeps running
FairChat ==
  \A n \in Usernames :
     /\ WF_vars(ProcessExit(n))
     /\ WF_vars(start_heartbeat(n))
     /\ WF_vars(heartbeat_loop_except(n))

\* Two nodes through their whole life, with Sessions that carry no text.
NextStop ==
  \/ \E n \in Pair : Start(n)
  \/ \E n \in Pair : start_heartbeat(n)
  \/ \E n \in Pair : heartbeat_loop_except(n)
  \/ \E n \in Pair, t \in Pair : main_connect(n, t) /\ ChatSlots'
  \/ \E n \in Pair, t \in Pair : connect_to_peer(n, t)
  \/ \E c \in Conns : connect_to_peer_recv(c)
  \/ \E c \in Conns : connect_to_peer_timeout(c)
  \/ \E c \in Conns : accept_connections(c)
  \/ \E c \in Conns : handle_incoming_connection(c)
  \/ \E c \in Conns, response \in {"y", "n"} : handle_incoming_decide(c, response)
  \/ \E c \in Conns, e \in Ends : receive_messages(c, e)
  \/ \E c \in Conns : receive_timeout(c)
  \/ \E c \in Conns, e \in Ends : receive_del(c, e)
  \/ \E c \in Conns, e \in Ends : receive_close(c, e)
  \/ \E c \in Conns, e \in Ends : send_messages(c, e, "/exit")
  \/ \E n \in Pair : Peer_unregister(n)
  \/ \E n \in Pair : ProcessExit(n)

SpecStop == InitPeer /\ [][NextStop]_vars

FairSpecStop == SpecStop /\ FairChat

\* C20: once a node has shut down, its accept loop takes no further
\* connection, its heartbeat sender leaves its loop at the next test, and
\* eventually none of its flows is left running or blocked.
C20_FlowsExitAfterShutdown ==
  /\ \A n \in Usernames : (mainpc[n] = "stopped") ~> Finished(n)
  /\ [][\A c \in Conns :
          (hst[c] = "backlog" /\ ~is_running[c_to[c]]) => hst'[c] \in {"backlog", "done"}]_vars
  /\ [][\A n \in Usernames :
          (hbpc[n] = "loop" /\ ~is_running[n]) => hbpc'[n] \in {"loop", "done"}]_vars

\* a node has shut down with a Session whose flows are blocked in recv and in
\* input, and its flows have then ended
C20_Witness ==
  \E n \in Usernames :
     /\ mainpc[n] = "exited"
     /\ ~is_running[n]
     /\ \E x \in SessionEnds(n) : rx[x[1]][x[2]] = "dead" /\ tx[x[1]][x[2]] = "dead"

(***************************************************************************)
(* Claims about the dial, the sweep, the listener and the frame of a       *)
(* teardown.                                                                *)
(***************************************************************************)
\* C21: connect_to_peer returns to its caller in the step that settles the
\* handshake, with success exactly when the Session was installed, and the
\* caller is not held in it while the Session runs.
C21_DialReturnsAtHandshake ==
  /\ [][\A c \in Conns :
          (ist[c] = "wait" /\ ist'[c] \in {"chat", "done"}) =>
             /\ mainpc'[c_init[c]] = "menu"
             /\ dialResult'.node = c_init[c]
             /\ dialResult'.ret <=> ist'[c] = "chat"]_vars
  /\ [](\A c \in Conns :
          (ist[c] = "chat" /\ rx[c]["i"] = "recv") => mainpc[c_init[c]] # "dial")

(***************************************************************************)
(* The sweep of the in-memory registry as a thread beside the handler       *)
(* threads: one step per iteration of its loop over the dict.               *)
(***************************************************************************)
SweepFrame == <<redis_client, redis_hash, redis_expire, online_peers, now,
                ncalls, lastCall, lastAddr, lastTouch, kept, peerVars>>

\* the keys of self.peers
keys == {u \in Usernames : peers[u] # None}

\* cleanup_old_peers: the wait(300) is over; with Redis the pass does nothing,
\* otherwise `for username, peer in self.peers.items()` starts
cleanup_old_peers_wait ==
  /\ calls[cleanup_thread].pc = "wait"
  /\ sweepDue
  /\ sweepDue' = FALSE
  /\ IF redis_client
     THEN UNCHANGED calls
     ELSE calls' = [calls EXCEPT ![cleanup_thread] =
                      [pc |-> "iter", used |-> Cardinality(keys),
                       seen |-> {}, to_remove |-> {}]]
  /\ resp' = NoResp
  /\ UNCHANGED <<peers, SweepFrame>>

\* cleanup_old_peers: the iterator's next item; it raises RuntimeError when
\* the dict has changed size since the loop started, and nothing catches it
cleanup_old_peers_iter ==
  LET c == calls[cleanup_thread] IN
  /\ c.pc = "iter"
  /\ IF Cardinality(keys) # c.used
     THEN calls' = [calls EXCEPT ![cleanup_thread] = [pc |-> "dead"]]
     ELSE IF keys \ c.seen = {}
     THEN calls' = [calls EXCEPT ![cleanup_thread].pc = "del"]
     ELSE \E username \in keys \ c.seen :
            calls' = [calls EXCEPT
                        ![cleanup_thread].seen = @ \cup {username},
                        ![cleanup_thread].to_remove =
                           IF (now - peers[username].last_seen) > MemTTL
                           THEN @ \cup {username} ELSE @]
  /\ resp' = NoResp
  /\ UNCHANGED <<peers, sweepDue, SweepFrame>>

\* cleanup_old_peers: `for username in to_remove: del self.peers[username]`
cleanup_old_peers_del ==
  LET c == calls[cleanup_thread] IN
  /\ c.pc = "del"
  /\ peers' = [u \in Usernames |-> IF u \in c.to_remove THEN None ELSE peers[u]]
  /\ calls' = [calls EXCEPT ![cleanup_thread] = Waiting]
  /\ resp' = NoResp
  /\ UNCHANGED <<sweepDue, SweepFrame>>

NextSweep ==
  \/ \E t \in Threads : Request(t)
  \/ \E t \in Threads : register_get_peer_info(t)
  \/ \E t \in Threads : register_peer_hset(t)
  \/ \E t \in Threads : update_peer_status_exists(t)
  \/ Tick
  \/ cleanup_old_peers_wait
  \/ cleanup_old_peers_iter
  \/ cleanup_old_peers_del

\* the registry that found no Redis: the only one whose sweep does anything
SpecSweep == InitStores /\ [][NextSweep]_vars

\* C22: the sweep deletes only records whose last_seen is older than the
\* TTL, and whatever the register and heartbeat calls running beside it, the
\* sweep thread is never lost.
C22_SweepOnlyStaleAndKeepsRunning ==
  /\ [][\A u \in Usernames :
          (/\ calls[cleanup_thread].pc = "del"
           /\ peers[u] # None /\ peers'[u] = None) =>
             (now - peers[u].last_seen) > MemTTL]_vars
  /\ [](calls[cleanup_thread].pc # "dead")

\* C23: whatever handshakes are pending and whatever Sessions are running on
\* a node, its listener accepts a connection that is waiting for it.
C23_AcceptNeverBlocked ==
  \A c \in Conns :
     (hst[c] = "backlog" /\ is_running[c_to[c]] /\ tcp_server[c_to[c]] = "listening")
        => ENABLED accept_connections(c)

\* a connection waits at a listener, or has just been taken by it, while a
\* handshake on another socket of that listener waits for the consent or
\* runs a Session
C23_Witness ==
  \E c \in Conns, d \in Conns :
     /\ c # d
     /\ c_to[c] = c_to[d]
     /\ hst[d] \in {"consent", "chat"}
     /\ hst[c] = "recv"

\* C24: a heartbeat for a username that has no record answers 200, writes
\* nothing to the store (no record created, every record and the online set
\* as before), and the lookup of that username is still 404 after it.
C24_HeartbeatWithoutRecord ==
  [][(ncalls' = ncalls + 1 /\ resp'.op = "heartbeat" /\ ~resp'.existed) =>
       /\ resp'.code = 200
       /\ peers' = peers
       /\ \A u \in Usernames : hgetall(u)' = hgetall(u)
       /\ online_peers' = online_peers
       /\ ListedOnline' = ListedOnline
       /\ \A u \in Usernames : u = resp'.username => peerinfo(u)'.code = 404]_vars

\* a heartbeat for a username with no record has just been answered, while
\* another username has a record
C24_Witness ==
  /\ resp.op = "heartbeat"
  /\ ~resp.existed
  /\ peerinfo(resp.username).code = 404
  /\ \E v \in Usernames : v # resp.username /\ peerinfo(v).code = 200

\* Three running nodes: bob and carol dial alice, MaxConns connections in
\* all; the Sessions are ended by /exit, by the peer or by the dial timeout.
Listener == "alice"
NextThree ==
  \/ \E n \in Usernames : Start(n)
  \/ \E n \in Usernames \ {Listener} : main_connect(n, Listener)
  \/ \E n \in Usernames \ {Listener} : connect_to_peer(n, Listener)
  \/ \E c \in Conns : connect_to_peer_recv(c)
  \/ \E c \in Conns : connect_to_peer_timeout(c)
  \/ \E c \in Conns : accept_connections(c)
  \/ \E c \in Conns : handle_incoming_connection(c)
  \/ \E c \in Conns, response \in {"y", "n"} : handle_incoming_decide(c, response)
  \/ \E c \in Conns, e \in Ends : receive_messages(c, e)
  \/ \E c \in Conns : receive_timeout(c)
  \/ \E c \in Conns, e \in Ends : receive_del(c, e)
  \/ \E c \in Conns, e \in Ends : receive_close(c, e)
  \/ \E c \in Conns, e \in Ends : send_messages(c, e, "/exit")

SpecThree == InitPeer /\ [][NextThree]_vars

\* the Session ends of node n whose remote username is not u
OtherSessions(n, u) == {x \in SessionEnds(n) : KeyOf(x[1], x[2]) # u}

\* C25: every step of the inbound teardown of a Session (leaving the read
\* loop on a closed or reset connection or a receive error, the del, the
\* close) leaves the node running and listening, and leaves the table
\* entries and the sockets and flows of its Sessions with every other remote
\* username as they were.
C25_TeardownFrame ==
  [][\A c \in Conns, e \in Ends :
       (/\ c_init[c] # "none"
        /\ rx[c][e] \in {"recv", "del", "close"}
        /\ rx'[c][e] \in {"del", "close", "done", "dead"}
        /\ rx'[c][e] # rx[c][e]) =>
          LET n == NodeOf(c, e)
              key == KeyOf(c, e)
          IN
          /\ is_running'[n] = is_running[n]
          /\ tcp_server'[n] = tcp_server[n]
          /\ \A u \in Usernames \ {key} : connections'[n][u] = connections[n][u]
          /\ \A x \in OtherSessions(n, key) :
               /\ sock'[x[1]][x[2]] = sock[x[1]][x[2]]
               /\ rx'[x[1]][x[2]] = rx[x[1]][x[2]]
               /\ tx'[x[1]][x[2]] = tx[x[1]][x[2]]]_vars

\* a Session of a node has been torn down after its peer closed the
\* connection without a Disconnect, while the node runs, listens and has a
\* Session with another username in its table, open and reading
C25_Witness ==
  \E n \in Usernames, c \in Conns, e \in Ends :
     /\ c_init[c] # "none" /\ NodeOf(c, e) = n
     /\ rx[c][e] = "done"
     /\ tx[c][Other(e)] = "input"
     /\ sock[c][Other(e)] = "closed"
     /\ is_running[n] /\ tcp_server[n] = "listening"
     /\ \E x \in OtherSessions(n, KeyOf(c, e)) :
          /\ connections[n][KeyOf(x[1], x[2])] = x[1]
          /\ sock[x[1]][x[2]] = "open"
          /\ rx[x[1]][x[2]] = "recv"

====
